---- MODULE Spec2Model ----
(***************************************************************************)
(* A model of the script engine bridge (engine.go and the Value wrapper):  *)
(* the Engine facade over one interpreter state, the stack protocol used   *)
(* by host functions called from script, Call from host into script, the   *)
(* marshalling funnel ValueFor, module preloading, and the guarded table   *)
(* operations of Value.                                                    *)
(*                                                                         *)
(* The interpreter (lua.LState) is a collaborator.  Of it the model keeps  *)
(* the register stack, the call frames, the global table, the preload and  *)
(* loaded module tables and the table objects.  Script code is the         *)
(* environment: a running script function may call a registered global    *)
(* and returns any list of values.                                         *)
(***************************************************************************)
EXTENDS Integers, Sequences, FiniteSets, TLC

\* ------------------------------------------------------------------ bounds
MaxDepth == 3
MaxHostDepth == 1
MaxArgs == 2
MaxRet == 2
MaxPush == 2
MaxTables == 1
MaxLen == 2
MaxInvoke == 2

\* ----------------------------------------------------------- script data
\* lua.LValue: the interpreter's value space.
LNil == [t |-> "nil"]
LBool(b) == [t |-> "boolean", b |-> b]
LNumber(n) == [t |-> "number", n |-> n]
LString(s) == [t |-> "string", s |-> s]
LTableRef(id) == [t |-> "table", id |-> id]
\* A function written in script.
LuaFn == [t |-> "function", kind |-> "lua"]
\* lua.LGFunction made by wrapScriptFunction around the host function id.
GFn(id) == [t |-> "function", kind |-> "gfn", id |-> id]
\* What the reflection collaborator makes of a host function: a callable
\* that converts the script arguments to the function's parameter types.
LuarFn(id, gotype) == [t |-> "function", kind |-> "luar", id |-> id, gotype |-> gotype]
\* What the reflection collaborator makes of a pointer to a host struct.
LUserData(of) == [t |-> "userdata", of |-> of]

\* ------------------------------------------------------------- host data
\* Value: the wrapper struct with its single field lval.
newValue(val) == [lval |-> val]

\* Host values handed to the Engine as interface{}; k is the dynamic type.
GoValue(v) == [k |-> "*Value", v |-> v]
GoInt(n) == [k |-> "int", n |-> n]
GoBool(b) == [k |-> "bool", b |-> b]
GoString(s) == [k |-> "string", s |-> s]
\* A host function: its identity and its dynamic (Go) type.
GoFunc(id, gotype) == [k |-> "func", id |-> id, gotype |-> gotype]

PlainType == "func(*Engine) int"
NamedType == "ScriptFunction"

\* luar.New: host value to script value.
luarNew(val) ==
  CASE val.k = "int" -> LNumber(val.n)
    [] val.k = "bool" -> LBool(val.b)
    [] val.k = "string" -> LString(val.s)
    [] val.k = "func" -> LuarFn(val.id, val.gotype)
    [] val.k = "*Value" -> LUserData(val.v)

\* A ValueFor that wraps whatever it is given.
ValueForAlwaysWraps(val) == [v |-> newValue(luarNew(val)), fresh |-> TRUE]

\* Engine.ValueFor: v is the returned *Value, fresh tells whether a new
\* wrapper was allocated for it.
ValueFor(val) ==
  IF val.k = "*Value"
    THEN [v |-> val.v, fresh |-> FALSE]
    ELSE [v |-> newValue(luarNew(val)), fresh |-> TRUE]

\* --------------------------------------------------------------- inputs
\* Global names: f is defined by script, h is registered or set by the host,
\* u is never defined.
Names == {"f", "h", "u"}
\* Values that scripts pass and return.
ScriptVals == {LNumber(1), LNumber(2)}
\* Values the host hands to SetGlobal, PushRet and Call: host scalars and
\* existing Values.
HostVals == {GoInt(1), GoValue(newValue(LNumber(2)))}
\* What the host hands to RegisterFunc: the same host function as a plain
\* func(*Engine) int and as a ScriptFunction, and a value that is no function.
HostFuncs == {GoFunc(1, PlainType), GoFunc(1, NamedType), GoInt(1)}

SeqsUpTo(S, n) == UNION {[1..m -> S] : m \in 0..n}

VARIABLES
  globals,   \* the interpreter's global table: name -> LValue
  reg,       \* the interpreter's register stack (top is the last element)
  frames,    \* the call frames, innermost last
  last,      \* what the last completed Engine operation returned
  preload,   \* package.preload: module name -> loader
  loaded,    \* package.loaded: module name -> LValue
  invoked,   \* per module name, what each run of its loader returned
  tables     \* the table objects: id -> contents

vars == <<globals, reg, frames, last, preload, loaded, invoked, tables>>

modvars == <<preload, loaded, invoked>>

\* --------------------------------------------------- interpreter stack
Top(s) == s[Len(s)]

\* The register index below the running function's first local: the slot
\* holding the function in the innermost frame, 0 outside any call.
LocalBase(frs) == IF frs = <<>> THEN 0 ELSE Top(frs).base

\* LState.GetTop: the number of values in the running function's frame.
GetTop(r, frs) == Len(r) - LocalBase(frs)

\* LState.Get(-1): the top of the running function's frame, LNil when empty.
GetM1(r, frs) == IF GetTop(r, frs) > 0 THEN r[Len(r)] ELSE LNil

\* LState.Pop(n).
Pop(r, n) == SubSeq(r, 1, Len(r) - n)

\* LState.Push.
Push(r, lv) == Append(r, lv)

\* LState.GetGlobal.
GetGlobalL(name) == globals[name]

\* The interpreter's adjustment of a callee's results to the number the
\* caller asked for: all of them for MultRet (-1), else exactly nret,
\* dropping the extra ones and padding with LNil.
Adjust(results, nret) ==
  IF nret = -1 THEN results
  ELSE [i \in 1..nret |-> IF i <= Len(results) THEN results[i] ELSE LNil]

\* No operation has returned since the host entered the interpreter.
Running == [op |-> "running"]

NoCause == [name |-> "", callee |-> LNil]

\* A call frame.  from, args, popped, pushed, calledAt and saved are
\* history: the host parameters of a Call, the arguments the call was made
\* with, the data popped and the host values pushed by a host function so
\* far, how many arguments it had popped when it first made a Call (-1: it
\* made none), and the register stack as it was before the call.
Frame(kind, caller, base, nret, name, from, args, saved) ==
  [kind |-> kind, caller |-> caller, base |-> base, nret |-> nret,
   name |-> name, from |-> from, args |-> args, popped |-> <<>>, pushed |-> <<>>,
   calledAt |-> -1, saved |-> saved]

\* ------------------------------------------------------ Engine.Call
\* What Call hands back to the host: vals and ok (err = nil), with the
\* history needed to state what it should be: the callee fn, the values
\* rets the callee returned, the register stack before and after, and the
\* script call that raised the error, if one did.
CallRec(name, n, fn, ok, vals, rets, before, after, cause) ==
  [op |-> "Call", name |-> name, n |-> n, fn |-> fn, ok |-> ok, vals |-> vals,
   rets |-> rets, before |-> before, after |-> after, cause |-> cause]

\* A Call that goes on to collect results although CallByParam failed.
CallErrorIgnored(name, retCount, fn, before, r, cause) ==
  CallRec(name, retCount, fn, TRUE, [i \in 1..retCount |-> newValue(LNil)], <<>>,
          before, r, cause)

\* Call when CallByParam failed: return nil, err.  The protected call has
\* restored the stack r.
CallError(name, retCount, fn, before, r, cause) ==
  CallRec(name, retCount, fn, FALSE, <<>>, <<>>, before, r, cause)

\* A loop that leaves the nil results out of the slice.
CallRetValsSkipsNil(r, frs, retCount) ==
  SelectSeq([i \in 1..retCount |-> newValue(GetM1(r, frs))], LAMBDA v : v.lval # LNil)

\* The loop of Call that collects the results from the stack r.
CallRetVals(r, frs, retCount) ==
  [i \in 1..retCount |-> newValue(GetM1(r, frs))]

\* An end of Call that leaves the results on the stack.
CallEpilogueNoPop(r, frs, retCount) ==
  [vals |-> CallRetVals(r, frs, retCount), reg |-> r]

\* The end of Call after CallByParam succeeded and left r: the returned
\* slice and the stack after Pop(retCount).
CallEpilogue(r, frs, retCount) ==
  [vals |-> CallRetVals(r, frs, retCount), reg |-> Pop(r, retCount)]

\* The parameters of Call, marshalled.
LuaParams(params) == [i \in 1..Len(params) |-> ValueFor(params[i]).v.lval]

\* The outcomes of calling a host function through the reflection
\* collaborator's wrapper: the wrapper converts the script arguments to the
\* parameter types and calls the function by reflection.  A function of
\* type ScriptFunction so called is handed no Engine of the invocation: the
\* call raises an error, or the function runs on a nil Engine and its int
\* result comes back as a number.
LuarOutcomes ==
  {[err |-> TRUE, rets |-> <<>>]}
    \cup {[err |-> FALSE, rets |-> <<LNumber(c)>>] : c \in 0..MaxPush}

\* How many of the frames run a host function.
HostDepth(frs) == Cardinality({i \in DOMAIN frs : frs[i].kind = "host"})

\* A call may enter the callee fn within the bounds of the model.
MayEnter(fn) ==
  /\ Len(frames) < MaxDepth
  /\ fn.kind = "gfn" => HostDepth(frames) < MaxHostDepth

\* The host (outside any call, or inside a host function) may use the Engine.
HostRuns == IF frames = <<>> THEN TRUE ELSE Top(frames).kind = "host"

\* The running host function, if any, has made a Call.
NoteCall(frs) ==
  IF frs = <<>> THEN frs
  ELSE [frs EXCEPT ![Len(frs)].calledAt = IF @ = -1 THEN Len(Top(frs).popped) ELSE @]

Call(name, retCount, params) ==
  /\ HostRuns
  /\ LET luaParams == LuaParams(params)
         fn == GetGlobalL(name)
         entered == reg \o <<fn>> \o luaParams
     IN
       CASE fn.t # "function" ->
              \* attempt to call a non-function object
              /\ last' = CallError(name, retCount, fn, reg, reg, NoCause)
              /\ UNCHANGED <<reg, frames>>
         [] fn.t = "function" /\ fn.kind = "luar" ->
              \E o \in LuarOutcomes :
                IF o.err
                  THEN /\ last' = CallError(name, retCount, fn, reg, reg, NoCause)
                       /\ UNCHANGED <<reg, frames>>
                  ELSE LET e == CallEpilogue(reg \o Adjust(o.rets, retCount), frames, retCount)
                       IN /\ last' = CallRec(name, retCount, fn, TRUE, e.vals, o.rets, reg, e.reg, NoCause)
                          /\ reg' = e.reg
                          /\ frames' = NoteCall(frames)
         [] fn.t = "function" /\ fn.kind \in {"lua", "gfn"} ->
              /\ MayEnter(fn)
              /\ reg' = entered
              /\ frames' = Append(NoteCall(frames),
                              Frame(IF fn.kind = "lua" THEN "lua" ELSE "host", "call",
                                    Len(reg) + 1, retCount, name, params, luaParams, reg))
              /\ last' = Running
  /\ UNCHANGED <<globals, modvars, tables>>

\* The callee frame fr returns results to its caller; count is what a host
\* function returned.
ReturnTo(fr, count, results) ==
  LET below == SubSeq(frames, 1, Len(frames) - 1)
      r == SubSeq(reg, 1, fr.base - 1) \o Adjust(results, fr.nret)
  IN
    CASE fr.caller = "call" ->
           \* back in Call, after CallByParam
           LET e == CallEpilogue(r, below, fr.nret)
           IN /\ reg' = e.reg
              /\ frames' = below
              /\ last' = CallRec(fr.name, fr.nret, GetGlobalL(fr.name), TRUE, e.vals,
                                 results, fr.saved, e.reg, NoCause)
      [] fr.caller = "load" ->
           \* back in LoadString: DoString leaves the chunk's results
           /\ reg' = r
           /\ frames' = below
           /\ last' = [op |-> "LoadString", ok |-> TRUE, cause |-> NoCause]
      [] fr.caller = "script" ->
           \* back in the calling script function, which takes the results
           \* into its own registers
           /\ reg' = SubSeq(reg, 1, fr.base - 1)
           /\ frames' = below
           /\ last' = [op |-> "HostReturn", name |-> fr.name, pushed |-> fr.pushed,
                       count |-> count, received |-> results]

\* An error raised in the running script function fr unwinds to the
\* protected call that entered it.
RaiseTo(fr, cause) ==
  /\ reg' = SubSeq(reg, 1, fr.base - 1)
  /\ frames' = SubSeq(frames, 1, Len(frames) - 1)
  /\ last' = IF fr.caller = "call"
               THEN CallError(fr.name, fr.nret, GetGlobalL(fr.name), fr.saved,
                              SubSeq(reg, 1, fr.base - 1), cause)
               ELSE [op |-> "LoadString", ok |-> FALSE, cause |-> cause]

\* lua.LVAsBool: everything but nil and false is true.
LVAsBool(lv) == ~(lv.t = "nil" \/ (lv.t = "boolean" /\ ~lv.b))

\* The Pop methods of Engine: PopArg, and the typed ones, each of which
\* calls PopArg and coerces the Value it got.
PopVariants ==
  {"PopArg", "PopBool", "PopInt", "PopInt64", "PopFloat", "PopString",
   "PopFunction", "PopNumber", "PopTable", "PopInterface"}

\* How many times the method calls PopArg.
PopArgCalls(variant) == 1

\* --------------------------------------------- inside a host function
InHost == frames # <<>> /\ Top(frames).kind = "host"
InScript == frames # <<>> /\ Top(frames).kind = "lua"

\* A PopArg that reads the top and leaves it there.
PopArgPeeks(r, frs) == [v |-> newValue(GetM1(r, frs)), reg |-> r]

\* Engine.PopArg: the Value of Get(-1) and the stack after Pop(1).
PopArgOf(r, frs) == [v |-> newValue(GetM1(r, frs)), reg |-> Pop(r, 1)]

\* The stack and the popped Values after k calls of PopArg.
RECURSIVE PopArgTimes(_, _, _)
PopArgTimes(r, frs, k) ==
  IF k = 0 THEN [reg |-> r, vs |-> <<>>]
  ELSE LET p == PopArgOf(r, frs)
           rest == PopArgTimes(p.reg, frs, k - 1)
       IN [reg |-> rest.reg, vs |-> <<p.v>> \o rest.vs]

\* PopArg or a typed variant runs.  The typed ones differ only in the
\* coercion of the Value they return to the host.  A host function follows
\* the stack protocol: it pops its arguments before it pushes results.
\* Popping from an empty frame is left to the interpreter and is not
\* modelled.
PopArg(variant) ==
  /\ InHost
  /\ Top(frames).pushed = <<>>
  /\ GetTop(reg, frames) >= PopArgCalls(variant)
  /\ LET p == PopArgTimes(reg, frames, PopArgCalls(variant))
         fr == Top(frames)
     IN /\ reg' = p.reg
        /\ frames' = [frames EXCEPT ![Len(frames)] =
                        [fr EXCEPT !.popped = @ \o [i \in 1..Len(p.vs) |-> p.vs[i].lval]]]
  /\ UNCHANGED <<globals, last, modvars, tables>>

\* Engine.PushRet: the stack after pushing val.
PushRetOf(r, val) == Push(r, ValueFor(val).v.lval)

\* pushed keeps the host value of each PushRet of the frame.
PushRet(val) ==
  /\ InHost
  /\ Len(Top(frames).pushed) < MaxPush
  /\ reg' = PushRetOf(reg, val)
  /\ frames' = [frames EXCEPT ![Len(frames)].pushed = Append(@, val)]
  /\ UNCHANGED <<globals, last, modvars, tables>>

\* A wrapper that drops the count of the ScriptFunction.
wrapDropsCount(c) == 0

\* wrapScriptFunction: the count the LGFunction reports for a
\* ScriptFunction that returned c.
wrapScriptFunction(c) == c

\* The host function returns c: the interpreter takes the top
\* wrapScriptFunction(c) values of its frame as the results.
HostReturn(c) ==
  /\ InHost
  /\ LET n == wrapScriptFunction(c)
     IN /\ n \in 0..GetTop(reg, frames)
        /\ ReturnTo(Top(frames), c, SubSeq(reg, Len(reg) - n + 1, Len(reg)))
  /\ UNCHANGED <<globals, modvars, tables>>

\* ------------------------------------------- inside a script function
\* Is the callable made from a host function of ScriptFunction shape?
FromScriptFunction(lv) ==
  /\ lv.t = "function"
  /\ \/ lv.kind = "gfn"
     \/ lv.kind = "luar" /\ lv.gotype \in {PlainType, NamedType}

ScriptCallRec(name, callee, engine, received) ==
  [op |-> "ScriptCall", name |-> name, callee |-> callee, engine |-> engine,
   received |-> received]

\* The running script function calls the global name with args.
ScriptCall(name, args) ==
  /\ InScript
  /\ LET fn == GetGlobalL(name)
         fr == Top(frames)
         cause == [name |-> name, callee |-> fn]
     IN
       CASE fn.t # "function" -> RaiseTo(fr, cause)
         [] fn.t = "function" /\ fn.kind = "luar" ->
              \E o \in LuarOutcomes :
                IF o.err THEN RaiseTo(fr, cause)
                ELSE /\ last' = ScriptCallRec(name, fn, "none", o.rets)
                     /\ UNCHANGED <<reg, frames>>
         [] fn.t = "function" /\ fn.kind = "gfn" ->
              \* the LGFunction of wrapScriptFunction runs with
              \* Engine{state: l} on the frame holding args
              /\ MayEnter(fn)
              /\ reg' = reg \o <<fn>> \o args
              /\ frames' = Append(frames,
                              Frame("host", "script", Len(reg) + 1, -1, name, <<>>, args, reg))
              /\ last' = ScriptCallRec(name, fn, "bound", <<>>)
         [] OTHER -> FALSE
  /\ UNCHANGED <<globals, modvars, tables>>

\* The running script function returns rets.  A chunk run by LoadString
\* returns nothing here (its results would stay on the stack).
ScriptReturn(rets) ==
  /\ InScript
  /\ Top(frames).caller = "load" => rets = <<>>
  /\ ReturnTo(Top(frames), Len(rets), rets)
  /\ UNCHANGED <<globals, modvars, tables>>

\* ------------------------------------------------ host, outside calls
AtHost == frames = <<>>

\* Engine.genScriptFunc.
genScriptFunc(fn) == GFn(fn.id)

\* The callable RegisterFunc installs for fn: the type assertion
\* fn.(func(*Engine) int) holds for a value of exactly that type.
RegisterFuncValue(fn) ==
  IF fn.k = "func" /\ fn.gotype = PlainType
    THEN genScriptFunc(fn)
    ELSE ValueFor(fn).v.lval

RegisterFunc(name, fn) ==
  /\ AtHost
  /\ globals' = [globals EXCEPT ![name] = RegisterFuncValue(fn)]
  /\ last' = [op |-> "RegisterFunc", name |-> name, fn |-> fn]
  /\ UNCHANGED <<reg, frames, modvars, tables>>

SetGlobal(name, val) ==
  /\ AtHost
  /\ globals' = [globals EXCEPT ![name] = ValueFor(val).v.lval]
  /\ last' = [op |-> "SetGlobal", name |-> name, val |-> val]
  /\ UNCHANGED <<reg, frames, modvars, tables>>

\* LoadString of a chunk that defines the script function name.
LoadStringDefine(name) ==
  /\ AtHost
  /\ globals' = [globals EXCEPT ![name] = LuaFn]
  /\ last' = [op |-> "LoadString", ok |-> TRUE, cause |-> NoCause]
  /\ UNCHANGED <<reg, frames, modvars, tables>>

\* LoadString of a chunk of statements: the chunk starts running.
LoadStringRun ==
  /\ AtHost
  /\ reg' = Append(reg, LuaFn)
  /\ frames' = Append(frames, Frame("lua", "load", Len(reg) + 1, -1, "", <<>>, <<>>, reg))
  /\ last' = Running
  /\ UNCHANGED <<globals, modvars, tables>>

\* ---------------------------------------------------------- ValueFor
\* The host marshals x and marshals the result again.
ValueForTwice(x) ==
  /\ AtHost
  /\ LET first == ValueFor(x)
         second == ValueFor(GoValue(first.v))
     IN last' = [op |-> "ValueFor", x |-> x, first |-> first, second |-> second]
  /\ UNCHANGED <<globals, reg, frames, modvars, tables>>

\* ------------------------------------------------------------- tables
\* A table object: its array part (LNil marks a hole) and its string keys.
FieldKeys == {"k"}
EmptyTable == [arr |-> <<>>, dict |-> [k \in FieldKeys |-> LNil]]

\* LTable.Append: nil is not appended; the value goes after the last
\* entry that is not nil.
LTAppend(t, lv) ==
  IF lv = LNil THEN t
  ELSE IF t.arr = <<>> \/ Top(t.arr) # LNil THEN [t EXCEPT !.arr = Append(@, lv)]
  ELSE LET used == {i \in DOMAIN t.arr : t.arr[i] # LNil}
           i == IF used = {} THEN 0 ELSE CHOOSE j \in used : \A u \in used : u <= j
       IN [t EXCEPT !.arr[i + 1] = lv]

\* LTable.Insert at a position 1..len+1 of the array part.
LTInsert(t, i, lv) ==
  [t EXCEPT !.arr = SubSeq(@, 1, i - 1) \o <<lv>> \o SubSeq(@, i, Len(@))]

\* LTable.Remove: the removed value and the table after; a position past
\* the end removes nothing, one before the start removes the last entry.
LTRemove(t, pos) ==
  LET n == Len(t.arr)
  IN IF n = 0 \/ pos > n THEN [t |-> t, ret |-> LNil]
     ELSE IF pos = n \/ pos < 1
       THEN [t |-> [t EXCEPT !.arr = SubSeq(@, 1, n - 1)], ret |-> t.arr[n]]
       ELSE [t |-> [t EXCEPT !.arr = SubSeq(@, 1, pos - 1) \o SubSeq(@, pos + 1, n)],
             ret |-> t.arr[pos]]

\* LTable.MaxN: the largest index of the array part holding a value.
LTMaxN(t) ==
  LET used == {i \in DOMAIN t.arr : t.arr[i] # LNil}
  IN IF used = {} THEN 0 ELSE CHOOSE j \in used : \A u \in used : u <= j

\* LTable.Len: the last index holding a value.
LTLen(t) == LTMaxN(t)

\* The string keys of the table that hold a value, in the table's order.
RECURSIVE SetToSeq(_)
SetToSeq(S) ==
  IF S = {} THEN <<>>
  ELSE LET x == CHOOSE y \in S : TRUE IN <<x>> \o SetToSeq(S \ {x})

DictKeys(t) == SetToSeq({k \in FieldKeys : t.dict[k] # LNil})

\* The entries LTable.ForEach calls back with, in its order: the array
\* part without its holes, then the string keys.
LTEntries(t) ==
  LET idx == SetToSeq({i \in DOMAIN t.arr : t.arr[i] # LNil})
      keys == DictKeys(t)
  IN [j \in 1..Len(idx) |-> [key |-> LNumber(idx[j]), val |-> t.arr[idx[j]]]]
       \o [j \in 1..Len(keys) |-> [key |-> LString(keys[j]), val |-> t.dict[keys[j]]]]

\* LTable.Next: the entry after key (LNil starts), LNil/LNil at the end.
LTNext(t, key) ==
  LET es == LTEntries(t)
      pos == IF key = LNil THEN 0
             ELSE IF \E j \in DOMAIN es : es[j].key = key
               THEN CHOOSE j \in DOMAIN es : es[j].key = key
               ELSE Len(es)
  IN IF pos < Len(es) THEN es[pos + 1] ELSE [key |-> LNil, val |-> LNil]

\* LuaNil: the Value of nil.
LuaNil == newValue(LNil)

\* Value.isTable and Value.asTable.
isTable(v) == v.lval.t = "table"
asTable(ts, v) == ts[v.lval.id]

\* The Values the host holds: of nil, of a number, of a string, and of
\* each table made so far.
Receivers ==
  {newValue(LNil), newValue(LNumber(1)), newValue(LString("s"))}
    \cup {newValue(LTableRef(i)) : i \in DOMAIN tables}

\* Value.TableAppend: the tables after.
TableAppendOf(ts, v, value) ==
  IF isTable(v) THEN [ts EXCEPT ![v.lval.id] = LTAppend(asTable(ts, v), value.lval)] ELSE ts

\* Value.TableInsert: the tables after.
TableInsertOf(ts, v, i, value) ==
  IF isTable(v) THEN [ts EXCEPT ![v.lval.id] = LTInsert(asTable(ts, v), i, value.lval)] ELSE ts

\* Value.TableRemove: the tables after and the returned Value.
TableRemoveOf(ts, v, pos) ==
  IF isTable(v)
    THEN LET r == LTRemove(asTable(ts, v), pos)
         IN [ts |-> [ts EXCEPT ![v.lval.id] = r.t], ret |-> newValue(r.ret)]
    ELSE [ts |-> ts, ret |-> LuaNil]

\* A TableLen with the length of an empty table for what is no table.
TableLenZero(ts, v) == IF isTable(v) THEN LTLen(asTable(ts, v)) ELSE 0

\* Value.TableLen.
TableLenOf(ts, v) == IF isTable(v) THEN LTLen(asTable(ts, v)) ELSE -1

\* Value.TableMaxN.
TableMaxNOf(ts, v) == IF isTable(v) THEN LTMaxN(asTable(ts, v)) ELSE 0

\* Value.TableNext: the returned pair.
TableNextOf(ts, v, key) ==
  IF isTable(v)
    THEN LET e == LTNext(asTable(ts, v), key.lval)
         IN <<newValue(e.key), newValue(e.val)>>
    ELSE <<LuaNil, LuaNil>>

\* Value.TableForEach: the calls of the visitor cb, in order.
TableForEachOf(ts, v) ==
  IF isTable(v)
    THEN LET es == LTEntries(asTable(ts, v))
         IN [j \in 1..Len(es) |-> <<newValue(es[j].key), newValue(es[j].val)>>]
    ELSE <<>>

\* What a table operation on the receiver v returned, with the tables as
\* they were before it.
TableRec(op, v, ret) == [op |-> op, recv |-> v, ret |-> ret, before |-> tables]

\* Engine.LuaTable.
LuaTable ==
  /\ AtHost
  /\ Len(tables) < MaxTables
  /\ tables' = Append(tables, EmptyTable)
  /\ last' = [op |-> "LuaTable", ret |-> newValue(LTableRef(Len(tables) + 1))]
  /\ UNCHANGED <<globals, reg, frames, modvars>>

\* Engine.SetField on a table Value.  On any other Value the interpreter
\* raises out of the call, which is not modelled.
SetField(tbl, key, val) ==
  /\ AtHost
  /\ isTable(tbl)
  /\ tables' = [tables EXCEPT ![tbl.lval.id].dict[key] = ValueFor(val).v.lval]
  /\ last' = [op |-> "SetField", tbl |-> tbl, key |-> key, val |-> val]
  /\ UNCHANGED <<globals, reg, frames, modvars>>

\* The array part of the receiver is within the model's bound.
Room(v) == isTable(v) => Len(asTable(tables, v).arr) < MaxLen

TableAppend(v, value) ==
  /\ AtHost
  /\ Room(v)
  /\ tables' = TableAppendOf(tables, v, value)
  /\ last' = TableRec("TableAppend", v, <<>>)
  /\ UNCHANGED <<globals, reg, frames, modvars>>

TableInsert(v, i, value) ==
  /\ AtHost
  /\ Room(v)
  /\ isTable(v) => i <= Len(asTable(tables, v).arr) + 1
  /\ tables' = TableInsertOf(tables, v, i, value)
  /\ last' = TableRec("TableInsert", v, <<>>)
  /\ UNCHANGED <<globals, reg, frames, modvars>>

TableRemove(v, pos) ==
  /\ AtHost
  /\ LET r == TableRemoveOf(tables, v, pos)
     IN /\ tables' = r.ts
        /\ last' = TableRec("TableRemove", v, r.ret)
  /\ UNCHANGED <<globals, reg, frames, modvars>>

TableLen(v) ==
  /\ AtHost
  /\ last' = TableRec("TableLen", v, TableLenOf(tables, v))
  /\ UNCHANGED <<globals, reg, frames, modvars, tables>>

TableMaxN(v) ==
  /\ AtHost
  /\ last' = TableRec("TableMaxN", v, TableMaxNOf(tables, v))
  /\ UNCHANGED <<globals, reg, frames, modvars, tables>>

TableNext(v, key) ==
  /\ AtHost
  /\ last' = TableRec("TableNext", v, TableNextOf(tables, v, key))
  /\ UNCHANGED <<globals, reg, frames, modvars, tables>>

TableForEach(v) ==
  /\ AtHost
  /\ last' = TableRec("TableForEach", v, TableForEachOf(tables, v))
  /\ UNCHANGED <<globals, reg, frames, modvars, tables>>

\* ------------------------------------------------------------ modules
ModNames == {"m", "n"}

\* No loader is preloaded under the name.
NoLoader == [k |-> "none"]

\* The loader functions the host registers, each by the host value it
\* returns: a new table, the Value of nil, the Value of false, a number.
Loaders == {[k |-> "loader", ret |-> r] : r \in {"table", "nil", "false", "number"}}

\* loadFn(e): the Value the loader returns, and the tables after it ran.
RunLoadFn(loadFn, ts) ==
  CASE loadFn.ret = "table" ->
         [mod |-> newValue(LTableRef(Len(ts) + 1)), ts |-> Append(ts, EmptyTable)]
    [] loadFn.ret = "nil" -> [mod |-> newValue(LNil), ts |-> ts]
    [] loadFn.ret = "false" -> [mod |-> ValueFor(GoBool(FALSE)).v, ts |-> ts]
    [] loadFn.ret = "number" -> [mod |-> ValueFor(GoInt(1)).v, ts |-> ts]

\* A loader closure that reports one result and pushes none.
ModuleLoaderNoPush(loadFn, r, ts) ==
  LET l == RunLoadFn(loadFn, ts)
  IN [reg |-> r, count |-> 1, mod |-> l.mod, ts |-> l.ts]

\* The closure RegisterModule preloads, run by the interpreter on the frame
\* r: loadFn runs, its Value is pushed with PushRet, the count is 1.
ModuleLoader(loadFn, r, ts) ==
  LET l == RunLoadFn(loadFn, ts)
  IN [reg |-> PushRetOf(r, GoValue(l.mod)), count |-> 1, mod |-> l.mod, ts |-> l.ts]

\* How many times RegisterModule itself runs the loader.
RegisterModuleRuns(loadFn) == 0

\* Engine.RegisterModule: PreloadModule(name, loader).  runs keeps, per
\* name, the datum each run of the loader returned.
RegisterModule(name, loadFn) ==
  /\ AtHost
  /\ preload' = [preload EXCEPT ![name] = loadFn]
  /\ invoked' = [invoked EXCEPT ![name] =
                   @ \o [i \in 1..RegisterModuleRuns(loadFn) |-> RunLoadFn(loadFn, tables).mod.lval]]
  /\ last' = [op |-> "RegisterModule", name |-> name, before |-> invoked[name]]
  /\ UNCHANGED <<globals, reg, frames, loaded, tables>>

\* What a require of name did: whether it ran the loader, with the values
\* the loader left on its frame and the count it reported.
RequireRec(name, ok, ran, pushed, count, mod, ret) ==
  [op |-> "require", name |-> name, ok |-> ok, ran |-> ran, pushed |-> pushed,
   count |-> count, mod |-> mod, ret |-> ret]

\* Script run by LoadString requires the module name.  The interpreter
\* answers from package.loaded when the entry is true in the script's
\* sense, else runs the preloaded loader with the name as its argument and
\* keeps its result in package.loaded (true when the result is nil).
Require(name) ==
  /\ AtHost
  /\ IF LVAsBool(loaded[name])
       THEN /\ last' = RequireRec(name, TRUE, FALSE, <<>>, 0, LuaNil, loaded[name])
            /\ UNCHANGED <<loaded, invoked, tables>>
     ELSE IF preload[name] = NoLoader
       THEN /\ last' = RequireRec(name, FALSE, FALSE, <<>>, 0, LuaNil, LNil)
            /\ UNCHANGED <<loaded, invoked, tables>>
     ELSE /\ Len(invoked[name]) < MaxInvoke
          /\ LET frame == <<LString(name)>>
                 l == ModuleLoader(preload[name], frame, tables)
                 res == Adjust(SubSeq(l.reg, Len(l.reg) - l.count + 1, Len(l.reg)), 1)
                 ret == IF res[1] = LNil THEN LBool(TRUE) ELSE res[1]
             IN /\ loaded' = [loaded EXCEPT ![name] = ret]
                /\ invoked' = [invoked EXCEPT ![name] = Append(@, l.mod.lval)]
                /\ tables' = l.ts
                /\ last' = RequireRec(name, TRUE, TRUE, SubSeq(l.reg, Len(frame) + 1, Len(l.reg)),
                                      l.count, l.mod, ret)
  /\ UNCHANGED <<globals, reg, frames, preload>>

\* The names the host calls: any name from outside, and from inside a host
\* function the script function and the undefined name.
CallNames == IF frames = <<>> THEN Names ELSE {"f", "u"}

\* ------------------------------------------------------ specification
Init ==
  /\ globals = [n \in Names |-> LNil]
  /\ reg = <<>>
  /\ frames = <<>>
  /\ last = [op |-> "NewEngine"]
  /\ preload = [m \in ModNames |-> NoLoader]
  /\ loaded = [m \in ModNames |-> LNil]
  /\ invoked = [m \in ModNames |-> <<>>]
  /\ tables = <<>>

Next ==
  \/ \E fn \in HostFuncs : RegisterFunc("h", fn)
  \/ \E val \in HostVals : SetGlobal("h", val)
  \/ LoadStringDefine("f")
  \/ LoadStringRun
  \/ \E name \in CallNames, n \in 0..MaxRet, params \in SeqsUpTo(HostVals, 1) :
       Call(name, n, params)
  \/ \E args \in SeqsUpTo(ScriptVals, MaxArgs) : ScriptCall("h", args)
  \/ \E rets \in SeqsUpTo(ScriptVals, MaxRet) : ScriptReturn(rets)
  \/ \E variant \in PopVariants : PopArg(variant)
  \/ \E val \in HostVals : PushRet(val)
  \/ \E c \in 0..(MaxArgs + MaxPush) : HostReturn(c)

Spec == Init /\ [][Next]_vars

\* The host working on tables through Values.
NextTable ==
  \/ LuaTable
  \/ \E v \in Receivers, val \in HostVals : SetField(v, "k", val)
  \/ \E v \in Receivers, x \in {LNumber(1), LNil} : TableAppend(v, newValue(x))
  \/ \E v \in Receivers, i \in 1..(MaxLen + 1), x \in {LNumber(1), LNil} :
       TableInsert(v, i, newValue(x))
  \/ \E v \in Receivers, pos \in 0..(MaxLen + 1) : TableRemove(v, pos)
  \/ \E v \in Receivers : TableLen(v)
  \/ \E v \in Receivers : TableMaxN(v)
  \/ \E v \in Receivers, key \in {LNil, LNumber(1), LNumber(2), LString("k")} :
       TableNext(v, newValue(key))
  \/ \E v \in Receivers : TableForEach(v)

SpecTable == Init /\ [][NextTable]_vars

\* The host registering modules and script requiring them.
NextModule ==
  \/ \E name \in ModNames, loadFn \in Loaders : RegisterModule(name, loadFn)
  \/ \E name \in ModNames : Require(name)

SpecModule == Init /\ [][NextModule]_vars

\* The host handing values to the interpreter: ValueFor itself, globals,
\* table fields, Call parameters and the results of a host function.
MarshalVals == HostVals \cup {GoBool(TRUE), GoString("s"), GoValue(newValue(LNil))}

NextMarshal ==
  \/ \E x \in MarshalVals : ValueForTwice(x)
  \/ \E val \in HostVals : SetGlobal("h", val)
  \/ RegisterFunc("h", GoFunc(1, PlainType))
  \/ LoadStringDefine("f")
  \/ LuaTable
  \/ \E v \in Receivers, val \in HostVals : SetField(v, "k", val)
  \/ /\ AtHost
     /\ \E name \in {"f", "h"}, params \in SeqsUpTo(HostVals, MaxArgs) :
          Call(name, 1, params)
  \/ ScriptReturn(<<>>)
  \/ \E val \in HostVals : PushRet(val)
  \/ \E c \in 0..(MaxArgs + MaxPush) : HostReturn(c)

SpecMarshal == Init /\ [][NextMarshal]_vars

\* ------------------------------------------------------------- claims
HostFrames == {i \in DOMAIN frames : frames[i].kind = "host"}

\* The part of the register stack that belongs to frame i.
FrameSeg(i) ==
  SubSeq(reg, frames[i].base + 1,
         IF i < Len(frames) THEN frames[i + 1].base - 1 ELSE Len(reg))

\* The data of the host values vals as the interpreter should see them.
DataOf(vals) == [j \in 1..Len(vals) |-> ValueFor(vals[j]).v.lval]

\* The pops of frame fr so far came off in last-in-first-out order.
PoppedLIFO(fr) ==
  /\ Len(fr.popped) <= Len(fr.args)
  /\ \A j \in 1..Len(fr.popped) : fr.popped[j] = fr.args[Len(fr.args) - j + 1]

\* C1: a successful Call(name, n, params...) returns exactly n Values,
\* whatever number of values the called function returned.
C1Theorem == (last.op = "Call" /\ last.ok) => Len(last.vals) = last.n

\* C1: a Call asking for two results of a function that returned one.
C1Witness ==
  last.op = "Call" /\ last.ok /\ last.fn = LuaFn /\ last.n = 2 /\ Len(last.rets) = 1

\* C2: the Value at index i of the slice of a successful Call of a script
\* function references the function's (i+1)-th returned value, and nil past
\* the returned values.
C2Claim ==
  (last.op = "Call" /\ last.ok /\ last.fn = LuaFn) =>
    \A i \in 1..last.n :
      last.vals[i].lval = IF i <= Len(last.rets) THEN last.rets[i] ELSE LNil

\* C3: in a host function called with (a1..am) the j-th pop returns
\* a(m-j+1), and every pop, typed or not, takes exactly one value off the
\* frame: what is left is a1..a(m-j), below whatever was pushed.
C3Theorem ==
  \A i \in HostFrames :
    LET fr == frames[i]
    IN /\ PoppedLIFO(fr)
       /\ FrameSeg(i) = SubSeq(fr.args, 1, Len(fr.args) - Len(fr.popped)) \o DataOf(fr.pushed)

\* C3: a host function called with two different arguments popped both.
C3Witness ==
  \E i \in HostFrames :
    /\ Len(frames[i].args) = 2
    /\ frames[i].args[1] # frames[i].args[2]
    /\ Len(frames[i].popped) = 2

\* C4: the script caller of a host function receives as many values as the
\* function's returned count, and when the function pushed p1..pc and
\* returned c, they are p1..pc in the order pushed.
C4Theorem ==
  last.op = "HostReturn" =>
    /\ Len(last.received) = last.count
    /\ last.count = Len(last.pushed) => last.received = DataOf(last.pushed)

\* C4: a host function pushed two different values and returned 2.
C4Witness ==
  /\ last.op = "HostReturn"
  /\ last.count = 2
  /\ Len(last.pushed) = 2
  /\ last.pushed[1] # last.pushed[2]

\* C5: Call of a name that is undefined or holds no callable returns an
\* error and no Values to the host.
C5Theorem ==
  (last.op = "Call" /\ last.fn.t # "function") => (~last.ok /\ last.vals = <<>>)

\* C5: Call of the undefined name asking for two results has returned.
C5Witness == last.op = "Call" /\ last.name = "u" /\ last.n = 2 /\ last.fn = LNil

\* C6: ValueFor of a Value returns that Value and allocates no wrapper, so
\* ValueFor(ValueFor(x)) references the datum of ValueFor(x); SetGlobal,
\* SetField, PushRet and Call given a Value hand over the Value's datum.
C6Theorem ==
  /\ last.op = "ValueFor" =>
       /\ last.second.v = last.first.v
       /\ last.second.v.lval = last.first.v.lval
       /\ ~last.second.fresh
  /\ (last.op = "SetGlobal" /\ last.val.k = "*Value") =>
       globals[last.name] = last.val.v.lval
  /\ (last.op = "SetField" /\ last.val.k = "*Value") =>
       tables[last.tbl.lval.id].dict[last.key] = last.val.v.lval
  /\ \A i \in DOMAIN frames :
       frames[i].caller = "call" =>
         \A j \in 1..Len(frames[i].from) :
           frames[i].from[j].k = "*Value" => frames[i].args[j] = frames[i].from[j].v.lval
  /\ InHost =>
       LET fr == Top(frames)
       IN \A j \in 1..Len(fr.pushed) :
            fr.pushed[j].k = "*Value" =>
              reg[Len(reg) - Len(fr.pushed) + j] = fr.pushed[j].v.lval

\* C6: a host string was marshalled and the result marshalled again.
C6Witness == last.op = "ValueFor" /\ last.x.k = "string"

\* C7 as amended: registration runs no loader; a require runs the loader
\* of a name again only if every earlier run for the name returned false;
\* each run pushes exactly the loader's Value and reports one result.
C7Theorem ==
  /\ last.op = "RegisterModule" => invoked[last.name] = last.before
  /\ \A m \in ModNames :
       \A i \in 1..(Len(invoked[m]) - 1) : invoked[m][i] = LBool(FALSE)
  /\ (last.op = "require" /\ last.ran) =>
       /\ last.pushed = <<last.mod.lval>>
       /\ last.count = 1

\* C7: a require answered without running the loader, which ran once before.
C7Witness ==
  /\ last.op = "require"
  /\ last.ok
  /\ ~last.ran
  /\ Len(invoked[last.name]) = 1

\* C7: registration runs no loader; the loader of a name runs at most once
\* over any sequence of requires; each run pushes exactly the loader's
\* Value and reports one result.
C7Claim ==
  /\ last.op = "RegisterModule" => invoked[last.name] = last.before
  /\ \A m \in ModNames : Len(invoked[m]) <= 1
  /\ (last.op = "require" /\ last.ran) =>
       /\ last.pushed = <<last.mod.lval>>
       /\ last.count = 1

\* C8: every script call of a name registered with a host function of
\* ScriptFunction shape, plain or of the declared type, runs the function
\* with an Engine bound to the call's frame.
C8Claim ==
  /\ (last.op = "ScriptCall" /\ FromScriptFunction(last.callee)) => last.engine = "bound"
  /\ (last.op \in {"Call", "LoadString"} /\ ~last.ok) => ~FromScriptFunction(last.cause.callee)

TableOps ==
  {"TableAppend", "TableInsert", "TableRemove", "TableLen", "TableMaxN",
   "TableNext", "TableForEach"}

\* The keys of the table t that hold a value.
ActiveKeys(t) ==
  {LNumber(i) : i \in {j \in DOMAIN t.arr : t.arr[j] # LNil}}
    \cup {LString(k) : k \in {f \in FieldKeys : t.dict[f] # LNil}}

\* C9: on a receiver that is no table every table operation changes
\* nothing and returns its sentinel; on a table TableForEach calls the
\* visitor once for each key that holds a value.
C9Theorem ==
  /\ (last.op \in TableOps /\ ~isTable(last.recv)) =>
       /\ tables = last.before
       /\ last.op = "TableForEach" => last.ret = <<>>
       /\ last.op = "TableRemove" => last.ret = newValue(LNil)
       /\ last.op = "TableNext" => last.ret = <<newValue(LNil), newValue(LNil)>>
       /\ last.op = "TableLen" => last.ret = -1
       /\ last.op = "TableMaxN" => last.ret = 0
  /\ (last.op = "TableForEach" /\ isTable(last.recv)) =>
       LET t == tables[last.recv.lval.id]
       IN /\ Len(last.ret) = Cardinality(ActiveKeys(t))
          /\ {last.ret[j][1].lval : j \in DOMAIN last.ret} = ActiveKeys(t)

\* C9: an insert through a Value that is no table, while a table with
\* entries exists.
C9Witness ==
  /\ last.op = "TableInsert"
  /\ ~isTable(last.recv)
  /\ tables # <<>>
  /\ tables[1].arr # <<>>

\* C10: a successful Call leaves the register stack as it found it, so a
\* host function that made a Call still pops its arguments in
\* last-in-first-out order.
C10Theorem ==
  /\ (last.op = "Call" /\ last.ok) => last.after = last.before
  /\ \A i \in HostFrames :
       frames[i].calledAt >= 0 =>
         /\ PoppedLIFO(frames[i])
         /\ i = Len(frames) =>
              Len(reg) = frames[i].base + Len(frames[i].args) - Len(frames[i].popped)
                           + Len(frames[i].pushed)

\* C10: a host function called from script made a successful Call for two
\* results before popping, then popped its two different arguments.
C10Witness ==
  /\ last.op = "Call" /\ last.ok /\ last.n = 2
  /\ \E i \in HostFrames :
       /\ frames[i].caller = "script"
       /\ frames[i].calledAt = 0
       /\ Len(frames[i].popped) = 2
       /\ frames[i].args[1] # frames[i].args[2]

====
